---- MODULE Spec2Model ----
(***************************************************************************)
(* Connection manager and cross-database query executor of                 *)
(* src/modules/core/lib/db.ts.                                             *)
(*                                                                         *)
(* The program is a single JavaScript process: an async function runs      *)
(* without preemption from one `await` to the next, so every action below  *)
(* is one such synchronous segment of connectDb or queryLocalDb.  File     *)
(* system and SQLite calls that the code guards with a catch block (open,  *)
(* migration, PRAGMA, DETACH, the caller's statement) or that a claim is   *)
(* about (ATTACH) may fail; their outcome is an input of the action.       *)
(***************************************************************************)
EXTENDS Integers, Sequences, FiniteSets, TLC

\* ------------------------------------------------------------------ bounds
NumCallers == 2
MaxCalls == 2
MaxTime == 1
MaxRuns == 3
MaxFailAt == 2

\* --------------------------------------------------------------- constants
DB_FILE == "intratool.db"
\* a module id is the sequence of its words and hyphens
MAIN_ID == <<"clic", "-", "tools", "-", "main">>
PLANNER_ID == <<"production", "-", "planner">>
WAREHOUSE_ID == <<"warehouse", "-", "management">>
REQUESTS_ID == <<"purchase", "-", "requests">>
COST_ID == <<"cost", "-", "assistant">>
NOTIFICATIONS_ID == <<"notifications", "-", "engine">>
AI_ID == <<"ai", "-", "engine">>
AdHocFile == "adhoc.db"

DB_MODULES ==
    << [id |-> MAIN_ID,          dbFile |-> "intratool.db"],
       [id |-> PLANNER_ID,       dbFile |-> "planner.db"],
       [id |-> WAREHOUSE_ID,     dbFile |-> "warehouse.db"],
       [id |-> REQUESTS_ID,      dbFile |-> "requests.db"],
       [id |-> COST_ID,          dbFile |-> "cost_assistant.db"],
       [id |-> NOTIFICATIONS_ID, dbFile |-> "notifications.db"],
       [id |-> AI_ID,            dbFile |-> "ia.db"] >>

FileSeq == [i \in 1..(Len(DB_MODULES) + 1) |->
               IF i <= Len(DB_MODULES) THEN DB_MODULES[i].dbFile ELSE AdHocFile]
Files == {FileSeq[i] : i \in DOMAIN FileSeq}
FileIndex(f) == CHOOSE i \in DOMAIN FileSeq : FileSeq[i] = f

\* the file names the modelled callers pass to connectDb
TargetFiles == {"intratool.db", "planner.db"}
\* the module files that may be present when queryLocalDb runs
FedFiles == {"intratool.db", "planner.db", "warehouse.db"}

Callers == 1..NumCallers
NoHandle == 0
Absent == 0
NoModule == 0

VARIABLES
    dirExists,        \* fs.existsSync(dbDirectory)
    disk,             \* file name -> inode of the file of that name, Absent if none
    inodes,           \* inode -> content of the file
    quarantine,       \* the <file>.corrupt.<timestamp> files: [file, ts, ino]
    handles,          \* every Database object created so far, by identity
    dbConnections,    \* the Map: file name -> handle, NoHandle if no entry
    callers,          \* the async calls in flight, one per caller
    calls,            \* history: number of calls made so far
    sdb,              \* the tables and rows of one database file
    page              \* the flag cronInitialized, the number of calls of
                      \* runScheduledTasks, the getInitialPageData calls in flight

connVars == <<dirExists, disk, inodes, quarantine, handles, dbConnections, callers, calls>>

vars == <<dirExists, disk, inodes, quarantine, handles, dbConnections, callers, calls, sdb,
          page>>

EmptyInode == [corrupt |-> FALSE, inited |-> FALSE, current |-> FALSE, data |-> FALSE]
LegacyInode == [corrupt |-> FALSE, inited |-> TRUE, current |-> FALSE, data |-> TRUE]
CorruptInode == [corrupt |-> TRUE, inited |-> FALSE, current |-> FALSE, data |-> TRUE]

\* a call: its arguments and locals (file, force, sql, db, dbExists, pc), its outcome
\* (result, error, qres) and, as history, what it did (log, attachedByCall,
\* detachTried, stmtThrew, logged: the query text handed to logError, fault:
\* an ATTACH or the statement of this call failed for a reason outside the
\* program), the number of the call (seq), the calls that were in flight when
\* it started (overlaps) and what was cached and on disk when it started
\* (startHandle, startIno)
IdleCaller ==
    [op |-> "none", pc |-> "idle", file |-> DB_FILE, force |-> FALSE,
     db |-> NoHandle, dbExists |-> FALSE, log |-> <<>>,
     seq |-> 0, startHandle |-> NoHandle, startIno |-> Absent,
     result |-> NoHandle, error |-> "none", qres |-> "none", sql |-> "none",
     attachedByCall |-> {}, detachTried |-> {}, stmtThrew |-> FALSE, logged |-> "none",
     fault |-> FALSE, overlaps |-> {}]

World == [dirExists |-> dirExists, disk |-> disk, inodes |-> inodes,
          quarantine |-> quarantine, handles |-> handles,
          dbConnections |-> dbConnections]

\* --------------------------------------------------------------- helpers
Log(c, e) == [c EXCEPT !.log = Append(@, e)]

Count(s, e) == Cardinality({i \in DOMAIN s : s[i] = e})

Has(s, e) == \E i \in DOMAIN s : s[i] = e

\* mutant: FindModule that falls back on the first module
FindModule_fallback(dbFile) ==
    LET S == {i \in DOMAIN DB_MODULES : DB_MODULES[i].dbFile = dbFile}
    IN  IF S = {} THEN 1 ELSE CHOOSE i \in S : TRUE

\* DB_MODULES.find(m => m.dbFile === dbFile)
FindModule(dbFile) ==
    LET S == {i \in DOMAIN DB_MODULES : DB_MODULES[i].dbFile = dbFile}
    IN  IF S = {} THEN NoModule ELSE CHOOSE i \in S : TRUE

IsOpen(w, h) == h # NoHandle /\ w.handles[h].open

\* connection.close(): the connection's attachments go with it
close(w, h) == [w EXCEPT !.handles[h].open = FALSE, !.handles[h].attached = {}]

\* new Database(dbPath) when it does not throw: opens the file, creating an
\* empty one when none exists; the new handle is the last of w.handles
newDatabase(w, dbFile) ==
    LET created == w.disk[dbFile] = Absent
        ino == IF created THEN Len(w.inodes) + 1 ELSE w.disk[dbFile]
        w1 == IF created
              THEN [w EXCEPT !.inodes = Append(@, EmptyInode), !.disk[dbFile] = ino]
              ELSE w
    IN  [w1 EXCEPT !.handles = Append(@, [file |-> dbFile, ino |-> ino, open |-> TRUE,
                                          attached |-> {}])]

\* outcomes of a module's migration function: "ok", "caught" (it fails partway
\* and its own try/catch swallows the error) or "throw" (the error leaves it)
MigOutcomes(m) ==
    CASE DB_MODULES[m].id \in {MAIN_ID, WAREHOUSE_ID, AI_ID} -> {"ok", "caught"}
      [] DB_MODULES[m].id = NOTIFICATIONS_ID -> {"ok"}
      [] OTHER -> {"ok", "caught", "throw"}

\* body of a migration function on the file of handle h: without the module's
\* foundational table it returns at once; a failing run leaves the schema stale
migrationFn(w, h, outcome) ==
    LET ino == w.handles[h].ino
    IN  IF w.inodes[ino].inited /\ outcome = "ok"
        THEN [w EXCEPT !.inodes[ino].current = TRUE]
        ELSE w

\* the log entry of a run of the Migrator
MigEvent(outcome) ==
    CASE outcome = "ok" -> "migrate"
      [] outcome = "caught" -> "migrateFail"
      [] OTHER -> "migrateThrow"

\* mutant: runMigrations without its try/catch
runMigrations_nocatch(w, c, m, outcome) ==
    [w |-> migrationFn(w, c.db, outcome),
     c |-> IF outcome = "throw"
           THEN [Log(c, MigEvent(outcome)) EXCEPT !.pc = "failed", !.error = "migration"]
           ELSE [Log(c, MigEvent(outcome)) EXCEPT !.pc = "awaitMig"]]

\* mutant: runMigrations that runs the Migrator on pre-existing files only
runMigrations_existingOnly(w, c, m, outcome) ==
    IF c.dbExists
    THEN [w |-> migrationFn(w, c.db, outcome),
          c |-> [Log(c, MigEvent(outcome)) EXCEPT !.pc = "awaitMig"]]
    ELSE [w |-> w, c |-> [c EXCEPT !.pc = "awaitMig"]]

\* runMigrations: the switch finds the module's migration function, the
\* try/catch swallows whatever it throws
runMigrations(w, c, m, outcome) ==
    [w |-> migrationFn(w, c.db, outcome),
     c |-> [Log(c, MigEvent(outcome)) EXCEPT !.pc = "awaitMig"]]

\* the module's Initializer: CREATE TABLE IF NOT EXISTS and the seed rows;
\* initializeMainDatabase ends with a run of the main Migrator
initializer(w, c, m, outcome) ==
    LET ino == w.handles[c.db].ino
        w1 == [w EXCEPT !.inodes[ino].inited = TRUE, !.inodes[ino].current = TRUE]
        c1 == [Log(c, "init") EXCEPT !.pc = "awaitInit"]
    IN  IF DB_MODULES[m].id = MAIN_ID
        THEN [w |-> migrationFn(w1, c.db, outcome),
              c |-> Log(c1, IF outcome = "ok" THEN "initMigrate" ELSE "initMigrateFail")]
        ELSE [w |-> w1, c |-> c1]

\* dbConnections.set(dbFile, db); return db
cacheAndReturn(w, c) ==
    [w |-> [w EXCEPT !.dbConnections[c.file] = c.db],
     c |-> [Log(c, "cache") EXCEPT !.result = c.db,
               !.pc = IF c.op = "query" THEN "awaitConnect" ELSE "done"]]

\* logError(message, details) of logger.ts: fire-and-forget, its promise
\* resolves whatever happens to the log entry
logErrorOutcomes == {"resolved"}

\* mutant: setJournalMode whose catch block throws the error again
setJournalMode_rethrow(w, c, pragma) ==
    IF pragma = "ok"
    THEN cacheAndReturn(w, Log(c, "wal"))
    ELSE [w |-> w, c |-> [Log(c, "walFail") EXCEPT !.pc = "failed", !.error = "pragma"]]

\* db.pragma('journal_mode = WAL') and its catch block
setJournalMode(w, c, pragma) ==
    IF pragma = "ok"
    THEN cacheAndReturn(w, Log(c, "wal"))
    ELSE IF pragma = "corrupt"
    THEN cacheAndReturn(w, Log(c, "walFail"))
    ELSE [w |-> w, c |-> [Log(c, "walFail") EXCEPT !.pc = "awaitLogPragma"]]

\* mutant: afterOpen with the test of dbExists inverted
afterOpen_inverted(w, c, in) ==
    LET m == FindModule(c.file)
    IN  IF m = NoModule THEN setJournalMode(w, c, in.pragma)
        ELSE IF c.dbExists THEN initializer(w, c, m, in.mig)
        ELSE runMigrations(w, c, m, in.mig)

\* connectDb from the module lookup to the first await after it
afterOpen(w, c, in) ==
    LET m == FindModule(c.file)
    IN  IF m = NoModule THEN setJournalMode(w, c, in.pragma)
        ELSE IF ~c.dbExists THEN initializer(w, c, m, in.mig)
        ELSE runMigrations(w, c, m, in.mig)

\* mutant: cacheHit that does not test whether the cached handle is open
cacheHit_anyHandle(w, c) == ~c.force /\ w.dbConnections[c.file] # NoHandle

\* mutant: cacheHit with forceRecreate in place of !forceRecreate
cacheHit_forced(w, c) ==
    c.force /\ w.dbConnections[c.file] # NoHandle /\ IsOpen(w, w.dbConnections[c.file])

\* mutant: cacheHit that never finds the handle
cacheHit_never(w, c) == FALSE

\* the cache lookup at the entry of connectDb
cacheHit(w, c) ==
    ~c.force /\ w.dbConnections[c.file] # NoHandle /\ IsOpen(w, w.dbConnections[c.file])

\* mutant: evict without dbConnections.delete(dbFile)
evict_nodelete(w, dbFile) ==
    LET cached == w.dbConnections[dbFile]
    IN  IF cached # NoHandle /\ IsOpen(w, cached) THEN close(w, cached) ELSE w

\* if (dbConnections.has(dbFile)) { close if open; delete the entry }
evict(w, dbFile) ==
    LET cached == w.dbConnections[dbFile]
    IN  IF cached # NoHandle
        THEN [(IF IsOpen(w, cached) THEN close(w, cached) ELSE w)
                 EXCEPT !.dbConnections[dbFile] = NoHandle]
        ELSE w

\* mutant: forcedUnlink that leaves the file in place
forcedUnlink_skip(w, c) == w

\* if (forceRecreate && fs.existsSync(dbPath)) fs.unlinkSync(dbPath)
forcedUnlink(w, c) ==
    IF c.force /\ w.disk[c.file] # Absent THEN [w EXCEPT !.disk[c.file] = Absent] ELSE w

\* mutant: renameCorrupt that deletes the corrupt file
renameCorrupt_unlink(w, dbFile, ts) == [w EXCEPT !.disk[dbFile] = Absent]

\* fs.renameSync(dbPath, `${dbPath}.corrupt.${Date.now()}`): a file that has
\* the target name already is replaced
renameCorrupt(w, dbFile, ts) ==
    [w EXCEPT !.disk[dbFile] = Absent,
              !.quarantine = {q \in @ : ~(q.file = dbFile /\ q.ts = ts)}
                             \cup {[file |-> dbFile, ts |-> ts, ino |-> w.disk[dbFile]]}]

\* connectDb from its entry to its first await (or return, or throw)
connectDb(w, c, in) ==
    LET f == c.file
    IN  IF cacheHit(w, c)
        THEN [w |-> w,
              c |-> [c EXCEPT !.result = w.dbConnections[f], !.db = w.dbConnections[f],
                        !.pc = IF c.op = "query" THEN "awaitConnect" ELSE "done"]]
        ELSE
        LET w2 == [evict(w, f) EXCEPT !.dirExists = TRUE]
            w3 == forcedUnlink(w2, c)
            c3 == IF w3.disk # w2.disk THEN Log(Log(c, "dir"), "unlink") ELSE Log(c, "dir")
            dbExists == w3.disk[f] # Absent
        IN  IF in.openErr
            THEN [w |-> w3,
                  c |-> [Log(c3, "openError") EXCEPT !.pc = "failed", !.error = "open"]]
            ELSE IF dbExists /\ w3.inodes[w3.disk[f]].corrupt
            THEN [w |-> renameCorrupt(w3, f, in.ts),
                  c |-> [Log(Log(c3, "openCorrupt"), "rename")
                            EXCEPT !.pc = "awaitLogCorrupt"]]
            ELSE LET w4 == newDatabase(w3, f)
                 IN  afterOpen(w4, [Log(c3, "open") EXCEPT !.db = Len(w4.handles),
                                                          !.dbExists = dbExists], in)

\* mutant: afterCorruptLog that tests again whether the file exists
afterCorruptLog_recheck(w, c, in) ==
    LET w1 == newDatabase(w, c.file)
    IN  afterOpen(w1, [Log(c, "open") EXCEPT !.db = Len(w1.handles),
                                           !.dbExists = w.disk[c.file] # Absent], in)

\* connectDb after `await logError(...)` of the corruption branch
afterCorruptLog(w, c, in) ==
    LET w1 == newDatabase(w, c.file)
    IN  afterOpen(w1, [Log(c, "open") EXCEPT !.db = Len(w1.handles), !.dbExists = FALSE], in)

\* ----------------------------------------------------------- queryLocalDb
\* mutant: allModuleDbs without the filter
allModuleDbs_unfiltered == DB_MODULES

\* DB_MODULES.filter(m => m.id !== 'clic-tools-main')
allModuleDbs == SelectSeq(DB_MODULES, LAMBDA mod : mod.id # MAIN_ID)

\* mod.id.replace(/-/g, '_')
replaceHyphens(id) == [i \in DOMAIN id |-> IF id[i] = "-" THEN "_" ELSE id[i]]

\* the ATTACH loop from module i on; ATTACH throws on a closed connection, on
\* an alias that is in use and when SQLite cannot attach the file
RECURSIVE attachLoop(_, _, _, _)
attachLoop(w, c, i, attachFail) ==
    IF i > Len(allModuleDbs) THEN [w |-> w, c |-> c]
    ELSE LET mod == allModuleDbs[i]
             alias == replaceHyphens(mod.id)
             h == c.db
         IN  IF w.disk[mod.dbFile] = Absent THEN attachLoop(w, c, i + 1, attachFail)
             ELSE IF ~w.handles[h].open \/ alias \in w.handles[h].attached
                     \/ mod.dbFile \in attachFail
             THEN [w |-> w, c |-> [c EXCEPT !.pc = "failed", !.error = "attach"]]
             ELSE attachLoop([w EXCEPT !.handles[h].attached = @ \cup {alias}],
                             [c EXCEPT !.attachedByCall = @ \cup {alias}],
                             i + 1, attachFail)

\* the DETACH loop of the finally block from module i on; every error is ignored
RECURSIVE detachLoop(_, _, _, _)
detachLoop(w, c, i, detachFail) ==
    IF i > Len(allModuleDbs) THEN [w |-> w, c |-> c]
    ELSE LET mod == allModuleDbs[i]
             alias == replaceHyphens(mod.id)
             h == c.db
             ok == w.handles[h].open /\ alias \in w.handles[h].attached
                   /\ mod.dbFile \notin detachFail
         IN  detachLoop(IF ok THEN [w EXCEPT !.handles[h].attached = @ \ {alias}] ELSE w,
                        [c EXCEPT !.detachTried = @ \cup {alias}],
                        i + 1, detachFail)

\* what the model has answered to the prompt of chatWithData: text that is
\* not JSON, {"sql_query": "null"}, or a sql_query that is a SELECT, an
\* UPDATE (or INSERT, DELETE, DROP) or no SQL statement at all
LlmResponses == {"notJson", "null", "select", "update", "invalid"}

\* chatWithData from the model's answer to the argument of queryLocalDb:
\* JSON.parse, the typeof test and the test for 'null'; "none" when
\* chatWithData returns without a query
sqlQuery(llmResponse) ==
    IF llmResponse \in {"notJson", "null"} THEN "none" ELSE llmResponse

\* mutant: reader that is true of every statement
reader_always(sql) == TRUE

\* stmt.reader: the statement returns data
reader(sql) == sql = "select"

\* mutant: execute whose catch block returns no rows in place of throwing
execute_swallow(w, c, stmt) ==
    IF ~w.handles[c.db].open \/ c.sql = "invalid" \/ stmt = "error"
    THEN [w |-> w, c |-> [c EXCEPT !.pc = "done", !.qres = "rows", !.stmtThrew = TRUE,
                                   !.logged = c.sql]]
    ELSE IF reader(c.sql)
    THEN [w |-> w, c |-> [c EXCEPT !.pc = "done", !.qres = "rows"]]
    ELSE [w |-> [w EXCEPT !.inodes[w.handles[c.db].ino].data = TRUE],
          c |-> [c EXCEPT !.pc = "done", !.qres = "writeResult"]]

\* try { prepare; all() or run() } catch { logError; throw }: prepare throws
\* on a closed connection and for a text that is no statement, all() and
\* run() may throw (stmt = "error"); the catch block hands the query text to
\* logError, without awaiting it, and throws the error again
execute(w, c, stmt) ==
    IF ~w.handles[c.db].open \/ c.sql = "invalid" \/ stmt = "error"
    THEN [w |-> w, c |-> [c EXCEPT !.pc = "failed", !.error = "stmt", !.stmtThrew = TRUE,
                                   !.logged = c.sql]]
    ELSE IF reader(c.sql)
    THEN [w |-> w, c |-> [c EXCEPT !.pc = "done", !.qres = "rows"]]
    ELSE [w |-> [w EXCEPT !.inodes[w.handles[c.db].ino].data = TRUE],
          c |-> [c EXCEPT !.pc = "done", !.qres = "writeResult"]]

\* queryLocalDb after `await connectDb()`
queryLocalDb(w, c, in) ==
    LET c0 == [c EXCEPT !.fault = in.attachFail # {} \/ in.stmt = "error"]
        a == attachLoop(w, c0, 1, in.attachFail)
    IN  IF a.c.pc = "failed" THEN a
        ELSE LET e == execute(a.w, a.c, in.stmt)
             IN  detachLoop(e.w, e.c, 1, in.detachFail)

\* ------------------------------------------- Initializers and Migrators
\* A database file is seen here as its tables (name -> set of column names)
\* and their rows (name -> set of rows: the users with their password and
\* role, the primary keys for the other tables).

\* the tables and columns of the schema text of initializeMainDatabase
MainSchema ==
    ("users" :> {"id", "name", "email", "password", "phone", "whatsapp", "erpAlias", "avatar",
            "role", "recentActivity", "securityQuestion", "securityAnswer",
            "forcePasswordChange", "activeWizardSession"}) @@
    ("roles" :> {"id", "name", "permissions"}) @@
    ("company_settings" :> {"id", "name", "taxId", "address", "phone", "email", "logoUrl",
            "systemName", "publicUrl", "quotePrefix", "nextQuoteNumber", "decimalPlaces",
            "quoterShowTaxId", "searchDebounceTime", "syncWarningHours", "lastSyncTimestamp",
            "importMode", "customerFilePath", "productFilePath", "exemptionFilePath",
            "stockFilePath", "locationFilePath", "cabysFilePath", "supplierFilePath",
            "erpPurchaseOrderHeaderFilePath", "erpPurchaseOrderLineFilePath",
            "erpInvoiceHeaderFilePath", "erpInvoiceLineFilePath"}) @@
    ("logs" :> {"id", "timestamp", "type", "message", "details"}) @@
    ("api_settings" :> {"id", "exchangeRateApi", "haciendaExemptionApi",
            "haciendaTributariaApi", "ollamaHost", "defaultModel"}) @@
    ("customers" :> {"id", "name", "address", "phone", "taxId", "currency", "creditLimit",
            "paymentCondition", "salesperson", "active", "email", "electronicDocEmail"}) @@
    ("products" :> {"id", "description", "classification", "lastEntry", "active", "notes",
            "unit", "isBasicGood", "cabys", "barcode"}) @@
    ("exemptions" :> {"code", "description", "customer", "authNumber", "startDate", "endDate",
            "percentage", "docType", "institutionName", "institutionCode"}) @@
    ("quote_drafts" :> {"id", "createdAt", "userId", "customerId", "customerDetails", "lines",
            "totals", "notes", "currency", "exchangeRate", "purchaseOrderNumber",
            "deliveryAddress", "deliveryDate", "sellerName", "sellerType", "quoteDate",
            "validUntilDate", "paymentTerms", "creditDays"}) @@
    ("exemption_laws" :> {"docType", "institutionName", "authNumber"}) @@
    ("cabys_catalog" :> {"code", "description", "taxRate"}) @@
    ("stock" :> {"itemId", "stockByWarehouse", "totalStock"}) @@
    ("sql_config" :> {"key", "value"}) @@
    ("import_queries" :> {"type", "query"}) @@
    ("suggestions" :> {"id", "content", "userId", "userName", "isRead", "timestamp"}) @@
    ("user_preferences" :> {"userId", "key", "value"}) @@
    ("notifications" :> {"id", "userId", "message", "href", "isRead", "timestamp", "entityId",
            "entityType", "taskType", "entityStatus"}) @@
    ("email_settings" :> {"key", "value"}) @@
    ("suppliers" :> {"id", "name", "alias", "email", "phone"}) @@
    ("erp_order_headers" :> {"PEDIDO", "ESTADO", "CLIENTE", "FECHA_PEDIDO", "FECHA_PROMETIDA",
            "ORDEN_COMPRA", "TOTAL_UNIDADES", "MONEDA_PEDIDO", "USUARIO"}) @@
    ("erp_order_lines" :> {"PEDIDO", "PEDIDO_LINEA", "ARTICULO", "CANTIDAD_PEDIDA",
            "PRECIO_UNITARIO"}) @@
    ("erp_purchase_order_headers" :> {"ORDEN_COMPRA", "PROVEEDOR", "FECHA_HORA", "ESTADO",
            "CreatedBy"}) @@
    ("erp_purchase_order_lines" :> {"ORDEN_COMPRA", "ARTICULO", "CANTIDAD_ORDENADA"}) @@
    ("erp_invoice_headers" :> {"CLIENTE", "NOMBRE_CLIENTE", "TIPO_DOCUMENTO", "FACTURA",
            "PEDIDO", "FACTURA_ORIGINAL", "FECHA", "FECHA_ENTREGA", "ANULADA", "EMBARCAR_A",
            "DIRECCION_FACTURA", "OBSERVACIONES", "RUTA", "USUARIO", "USUARIO_ANULA", "ZONA",
            "VENDEDOR", "REIMPRESO"}) @@
    ("erp_invoice_lines" :> {"FACTURA", "TIPO_DOCUMENTO", "LINEA", "BODEGA", "PEDIDO",
            "ARTICULO", "ANULADA", "FECHA_FACTURA", "CANTIDAD", "PRECIO_UNITARIO",
            "TOTAL_IMPUESTO1", "PRECIO_TOTAL", "DESCRIPCION", "DOCUMENTO_ORIGEN",
            "CANT_DESPACHADA", "ES_CANASTA_BASICA"}) @@
    ("stock_settings" :> {"key", "value"}) @@
    ("vendedores" :> {"VENDEDOR", "NOMBRE", "EMPLEADO"}) @@
    ("direcciones_embarque" :> {"CLIENTE", "DIRECCION", "DETALLE_DIRECCION", "DESCRIPCION"}) @@
    ("nominas" :> {"NOMINA", "DESCRIPCION", "TIPO_NOMINA"}) @@
    ("puestos" :> {"PUESTO", "DESCRIPCION", "ACTIVO"}) @@
    ("departamentos" :> {"DEPARTAMENTO", "DESCRIPCION", "ACTIVO"}) @@
    ("empleados" :> {"EMPLEADO", "NOMBRE", "ACTIVO", "DEPARTAMENTO", "PUESTO", "NOMINA"}) @@
    ("vehiculos" :> {"placa", "marca"})

\* the tables and columns of the CREATE TABLE statements of checkAndApplyMigrations
MainMigrationTables ==
    ("notifications" :> {"id", "userId", "message", "href", "isRead", "timestamp", "entityId",
            "entityType", "taskType", "entityStatus"}) @@
    ("user_preferences" :> {"userId", "key", "value"}) @@
    ("email_settings" :> {"key", "value"}) @@
    ("suppliers" :> {"id", "name", "alias", "email", "phone"}) @@
    ("erp_order_headers" :> {"PEDIDO", "ESTADO", "CLIENTE", "FECHA_PEDIDO", "FECHA_PROMETIDA",
            "ORDEN_COMPRA", "TOTAL_UNIDADES", "MONEDA_PEDIDO", "USUARIO"}) @@
    ("erp_order_lines" :> {"PEDIDO", "PEDIDO_LINEA", "ARTICULO", "CANTIDAD_PEDIDA",
            "PRECIO_UNITARIO"}) @@
    ("erp_purchase_order_headers" :> {"ORDEN_COMPRA", "PROVEEDOR", "FECHA_HORA", "ESTADO",
            "CreatedBy"}) @@
    ("erp_purchase_order_lines" :> {"ORDEN_COMPRA", "ARTICULO", "CANTIDAD_ORDENADA"}) @@
    ("stock_settings" :> {"key", "value"}) @@
    ("erp_invoice_headers" :> {"CLIENTE", "NOMBRE_CLIENTE", "TIPO_DOCUMENTO", "FACTURA",
            "PEDIDO", "FACTURA_ORIGINAL", "FECHA", "FECHA_ENTREGA", "ANULADA", "EMBARCAR_A",
            "DIRECCION_FACTURA", "OBSERVACIONES", "RUTA", "USUARIO", "USUARIO_ANULA", "ZONA",
            "VENDEDOR", "REIMPRESO"}) @@
    ("erp_invoice_lines" :> {"FACTURA", "TIPO_DOCUMENTO", "LINEA", "BODEGA", "PEDIDO",
            "ARTICULO", "ANULADA", "FECHA_FACTURA", "CANTIDAD", "PRECIO_UNITARIO",
            "TOTAL_IMPUESTO1", "PRECIO_TOTAL", "DESCRIPCION", "DOCUMENTO_ORIGEN",
            "CANT_DESPACHADA", "ES_CANASTA_BASICA"}) @@
    ("vendedores" :> {"VENDEDOR", "NOMBRE", "EMPLEADO"}) @@
    ("direcciones_embarque" :> {"CLIENTE", "DIRECCION", "DETALLE_DIRECCION", "DESCRIPCION"}) @@
    ("nominas" :> {"NOMINA", "DESCRIPCION", "TIPO_NOMINA"}) @@
    ("puestos" :> {"PUESTO", "DESCRIPCION", "ACTIVO"}) @@
    ("departamentos" :> {"DEPARTAMENTO", "DESCRIPCION", "ACTIVO"}) @@
    ("empleados" :> {"EMPLEADO", "NOMBRE", "ACTIVO", "DEPARTAMENTO", "PUESTO", "NOMINA"}) @@
    ("vehiculos" :> {"placa", "marca"})

\* the tables and columns of the schema text of initializeWarehouseDb
WarehouseSchema ==
    ("locations" :> {"id", "name", "code", "type", "parentId", "isLocked", "lockedBy",
            "lockedByUserId", "lockedAt"}) @@
    ("inventory" :> {"id", "itemId", "locationId", "quantity", "lastUpdated", "updatedBy"}) @@
    ("item_locations" :> {"id", "itemId", "locationId", "clientId", "updatedBy", "updatedAt"}) @@
    ("inventory_units" :> {"id", "unitCode", "productId", "humanReadableId", "documentId",
            "locationId", "quantity", "notes", "createdAt", "createdBy"}) @@
    ("movements" :> {"id", "itemId", "quantity", "fromLocationId", "toLocationId", "timestamp",
            "userId", "notes"}) @@
    ("warehouse_config" :> {"key", "value"}) @@
    ("dispatch_logs" :> {"id", "documentId", "documentType", "verifiedAt", "verifiedByUserId",
            "verifiedByUserName", "items", "notes"}) @@
    ("dispatch_containers" :> {"id", "name", "createdBy", "createdAt", "isLocked", "lockedBy",
            "lockedByUserId", "lockedAt"}) @@
    ("dispatch_assignments" :> {"id", "containerId", "documentId", "documentType",
            "documentDate", "clientId", "clientName", "assignedBy", "assignedAt", "sortOrder",
            "status"})

\* the tables and columns of the schema text of initializeNotificationsDb
NotificationsSchema ==
    ("notification_rules" :> {"id", "name", "event", "action", "recipients", "subject",
            "enabled"}) @@
    ("notification_settings" :> {"service", "config"})

\* the tables and columns of the schema text of initializeAiDb
AiSchema ==
    ("knowledge_base_paths" :> {"id", "name", "path"}) @@
    ("chat_history" :> {"id", "sessionId", "userId", "role", "content", "timestamp"})

\* the ids of the rows of initialRoles
initialRoles == <<"admin", "viewer">>

\* the modules whose Initializer and Migrator are modelled
SchemaModules == {MAIN_ID, WAREHOUSE_ID, NOTIFICATIONS_ID, AI_ID}

\* the schema text of a module's Initializer
ModuleSchema(id) ==
    CASE id = MAIN_ID -> MainSchema
      [] id = WAREHOUSE_ID -> WarehouseSchema
      [] id = NOTIFICATIONS_ID -> NotificationsSchema
      [] OTHER -> AiSchema

EmptyDb == [t \in {} |-> {}]

\* a stored password: the marker its text starts with, how many times bcrypt
\* has been applied to get it, and whether it is the empty string
NoPassword == [marker |-> "", hashes |-> 0, empty |-> TRUE]

PlainPassword(marker) == [marker |-> marker, hashes |-> 0, empty |-> FALSE]

BcryptHash(marker) == [marker |-> marker, hashes |-> 1, empty |-> FALSE]

\* user.password.startsWith('$2a$')
startsWith2a(pw) == pw.marker = "$2a$"

\* bcrypt.hashSync(password, SALT_ROUNDS) of bcryptjs: a hash with the marker
\* the code tests for
hashSync(pw) == [marker |-> "$2a$", hashes |-> pw.hashes + 1, empty |-> FALSE]

\* --- statements on a database in the course of one run m: m.ddl lists the
\* schema-changing statements issued, m.err tells that a statement has thrown
\* (nothing runs after it), m.thrown that the error has left the function that
\* was run, m.failAt is the statement that fails for a reason of the
\* environment (0: none)
TableExists(m, t) == t \in DOMAIN m.schema

\* PRAGMA table_info(t): no rows, and no error, for a table that does not exist
table_info(m, t) == IF TableExists(m, t) THEN m.schema[t] ELSE {}

Throws(m) == Len(m.ddl) + 1 = m.failAt

issue(m, kind) == [m EXCEPT !.ddl = Append(@, kind)]

\* CREATE TABLE t (cols)
createTable(m, t, cols) ==
    IF m.err THEN m
    ELSE IF Throws(m) \/ TableExists(m, t) THEN [issue(m, "CREATE") EXCEPT !.err = TRUE]
    ELSE [issue(m, "CREATE") EXCEPT !.schema = (t :> cols) @@ @, !.rows = (t :> {}) @@ @]

\* DROP TABLE t
dropTable(m, t) ==
    IF m.err THEN m
    ELSE IF Throws(m) \/ ~TableExists(m, t) THEN [issue(m, "DROP") EXCEPT !.err = TRUE]
    ELSE [issue(m, "DROP") EXCEPT
             !.schema = [x \in DOMAIN m.schema \ {t} |-> m.schema[x]],
             !.rows = [x \in DOMAIN m.rows \ {t} |-> m.rows[x]]]

\* ALTER TABLE t ADD COLUMN col
addColumn(m, t, col) ==
    IF m.err THEN m
    ELSE IF Throws(m) \/ ~TableExists(m, t) \/ col \in table_info(m, t)
    THEN [issue(m, "ALTER") EXCEPT !.err = TRUE]
    ELSE [issue(m, "ALTER") EXCEPT !.schema[t] = @ \cup {col}]

\* ALTER TABLE t DROP COLUMN col
dropColumn(m, t, col) ==
    IF m.err THEN m
    ELSE IF Throws(m) \/ col \notin table_info(m, t)
    THEN [issue(m, "ALTER") EXCEPT !.err = TRUE]
    ELSE [issue(m, "ALTER") EXCEPT !.schema[t] = @ \ {col}]

\* CREATE TABLE IF NOT EXISTS for every table of a schema text
execSchema(m, schema) ==
    [m EXCEPT !.schema = @ @@ schema,
              !.rows = @ @@ [t \in DOMAIN schema |-> {}]]

\* mutant: insertOrIgnore as a plain INSERT, which throws on an existing key
insertOrIgnore_plain(m, t, keys) ==
    IF m.err THEN m
    ELSE IF ~TableExists(m, t) \/ keys \cap m.rows[t] # {} THEN [m EXCEPT !.err = TRUE]
    ELSE [m EXCEPT !.rows[t] = @ \cup keys]

\* INSERT OR IGNORE INTO t for rows with the given primary keys
insertOrIgnore(m, t, keys) ==
    IF m.err THEN m
    ELSE IF ~TableExists(m, t) THEN [m EXCEPT !.err = TRUE]
    ELSE [m EXCEPT !.rows[t] = @ \cup keys]

\* the database under study, with what the last run on it did: the state
\* before it (prev), the statements it issued (ddl), whether one threw (err),
\* whether the error left the function (thrown) and which statement the
\* environment made fail (failAt)
Database(id, origin, schema, rows) ==
    [module |-> id, origin |-> origin, schema |-> schema, rows |-> rows,
     prev |-> [schema |-> schema, rows |-> rows], ops |-> <<>>, ddl |-> <<>>, err |-> FALSE,
     thrown |-> FALSE, failAt |-> 0]

NoDatabase == Database(MAIN_ID, "none", EmptyDb, EmptyDb)

\* mutant: addMissing that does not look at the columns the table has
RECURSIVE addMissing_unguarded(_, _, _, _, _)
addMissing_unguarded(m, t, cols, i, snapshot) ==
    IF i > Len(cols) THEN m
    ELSE addMissing_unguarded(addColumn(m, t, cols[i]), t, cols, i + 1, snapshot)

\* if (!columns.has(col)) ALTER TABLE t ADD COLUMN col, for each col from the
\* i-th on; snapshot is the result of PRAGMA table_info(t) before the first
RECURSIVE addMissing(_, _, _, _, _)
addMissing(m, t, cols, i, snapshot) ==
    IF i > Len(cols) THEN m
    ELSE addMissing(IF cols[i] \in snapshot THEN m ELSE addColumn(m, t, cols[i]),
                    t, cols, i + 1, snapshot)

\* ALTER TABLE t ADD COLUMN col for each col from the i-th on, unconditionally
RECURSIVE addAll(_, _, _, _)
addAll(m, t, cols, i) ==
    IF i > Len(cols) THEN m ELSE addAll(addColumn(m, t, cols[i]), t, cols, i + 1)

\* UPDATE users SET role = 'admin' WHERE id = 1, when user 1 is not an admin
ensureAdmin(m) ==
    IF m.err THEN m
    ELSE [m EXCEPT !.rows["users"] =
             {IF u.id = 1 /\ u.role # "admin" THEN [u EXCEPT !.role = "admin"] ELSE u : u \in @}]

\* the loop that hashes the passwords that are not empty and do not start
\* with $2a$
hashPasswords(m) ==
    IF m.err THEN m
    ELSE [m EXCEPT !.rows["users"] =
             {IF ~u.password.empty /\ ~startsWith2a(u.password)
              THEN [u EXCEPT !.password = hashSync(@)] ELSE u : u \in @}]

\* DROP TABLE t; CREATE TABLE t (cols), two statements in autocommit mode
recreateTable(m, t, cols) == createTable(dropTable(m, t), t, cols)

\* the steps of checkAndApplyMigrations after its guard, in the order of the
\* code.  The column sets of company_settings are all tested against the one
\* table_info read before the first of them; the statements in between add
\* or drop other columns than the ones tested later, so that reading it
\* again at each step gives the same tests
MainMigrationSteps ==
    << [k |-> "createOrAdd", t |-> "notifications",
        cols |-> <<"entityId", "entityType", "taskType", "entityStatus">>],
       [k |-> "create", t |-> "user_preferences", cols |-> <<>>],
       [k |-> "create", t |-> "email_settings", cols |-> <<>>],
       [k |-> "add", t |-> "users",
        cols |-> <<"erpAlias", "forcePasswordChange", "activeWizardSession">>],
       [k |-> "add", t |-> "company_settings",
        cols |-> <<"decimalPlaces", "quoterShowTaxId", "syncWarningHours", "publicUrl">>],
       [k |-> "dropColumn", t |-> "company_settings", cols |-> <<"importPath">>],
       [k |-> "add", t |-> "company_settings",
        cols |-> <<"customerFilePath", "productFilePath", "exemptionFilePath",
                   "stockFilePath", "locationFilePath", "cabysFilePath", "supplierFilePath",
                   "erpPurchaseOrderHeaderFilePath", "erpPurchaseOrderLineFilePath",
                   "erpInvoiceHeaderFilePath", "erpInvoiceLineFilePath", "importMode",
                   "logoUrl", "searchDebounceTime", "lastSyncTimestamp">>],
       [k |-> "add", t |-> "products", cols |-> <<"barcode">>],
       [k |-> "ensureAdmin", t |-> "users", cols |-> <<>>],
       [k |-> "addIfExists", t |-> "quote_drafts",
        cols |-> <<"userId", "customerId", "lines", "totals", "notes", "currency",
                   "exchangeRate", "purchaseOrderNumber">>],
       [k |-> "hashPasswords", t |-> "users", cols |-> <<>>],
       [k |-> "addIfExists", t |-> "api_settings",
        cols |-> <<"haciendaExemptionApi", "haciendaTributariaApi", "ollamaHost",
                   "defaultModel">>],
       [k |-> "create", t |-> "suppliers", cols |-> <<>>],
       [k |-> "createOrAdd", t |-> "erp_order_headers",
        cols |-> <<"MONEDA_PEDIDO", "TOTAL_UNIDADES", "USUARIO">>],
       [k |-> "create", t |-> "erp_order_lines", cols |-> <<>>],
       [k |-> "createOrAdd", t |-> "erp_purchase_order_headers", cols |-> <<"CreatedBy">>],
       [k |-> "createOrRecreate", t |-> "erp_purchase_order_lines",
        cols |-> <<"ORDEN_COMPRA">>],
       [k |-> "create", t |-> "stock_settings", cols |-> <<>>],
       [k |-> "create", t |-> "erp_invoice_headers", cols |-> <<>>],
       [k |-> "create", t |-> "erp_invoice_lines", cols |-> <<>>],
       [k |-> "create", t |-> "vendedores", cols |-> <<>>],
       [k |-> "create", t |-> "direcciones_embarque", cols |-> <<>>],
       [k |-> "create", t |-> "nominas", cols |-> <<>>],
       [k |-> "create", t |-> "puestos", cols |-> <<>>],
       [k |-> "create", t |-> "departamentos", cols |-> <<>>],
       [k |-> "create", t |-> "empleados", cols |-> <<>>],
       [k |-> "create", t |-> "vehiculos", cols |-> <<>>] >>

\* the steps of runWarehouseMigrations: the two columns of locations are
\* added when the first is missing; checkAndRecreateForeignKey is never called
WarehouseMigrationSteps ==
    << [k |-> "addGroup", t |-> "locations", cols |-> <<"lockedByUserId", "lockedAt">>],
       [k |-> "addIfExists", t |-> "dispatch_containers",
        cols |-> <<"lockedByUserId", "lockedAt">>] >>

\* one step of a Migrator; tabs gives the columns of its CREATE TABLE statements
migrationStep(m, s, tabs) ==
    IF m.err THEN m
    ELSE CASE s.k = "create" ->
                IF TableExists(m, s.t) THEN m ELSE createTable(m, s.t, tabs[s.t])
           [] s.k = "createOrAdd" ->
                IF TableExists(m, s.t) THEN addMissing(m, s.t, s.cols, 1, table_info(m, s.t))
                ELSE createTable(m, s.t, tabs[s.t])
           [] s.k = "add" -> addMissing(m, s.t, s.cols, 1, table_info(m, s.t))
           [] s.k = "addIfExists" ->
                IF TableExists(m, s.t) THEN addMissing(m, s.t, s.cols, 1, table_info(m, s.t))
                ELSE m
           [] s.k = "addGroup" ->
                IF s.cols[1] \in table_info(m, s.t) THEN m ELSE addAll(m, s.t, s.cols, 1)
           [] s.k = "dropColumn" ->
                IF s.cols[1] \in table_info(m, s.t) THEN dropColumn(m, s.t, s.cols[1]) ELSE m
           [] s.k = "createOrRecreate" ->
                IF ~TableExists(m, s.t) THEN createTable(m, s.t, tabs[s.t])
                ELSE IF s.cols[1] \in table_info(m, s.t) THEN m
                ELSE recreateTable(m, s.t, tabs[s.t])
           [] s.k = "ensureAdmin" -> ensureAdmin(m)
           [] OTHER -> hashPasswords(m)

\* a function body without try/catch: the error of a statement leaves it
uncaught(m) == [m EXCEPT !.thrown = m.err]

\* mutant: tryCatch whose catch block throws the error again
tryCatch_rethrow(m) == [m EXCEPT !.thrown = m.err]

\* try { body } catch (error) { console.error(...) }: the error stays inside
tryCatch(m) == [m EXCEPT !.thrown = FALSE]

RECURSIVE runSteps(_, _, _, _)
runSteps(m, steps, tabs, i) ==
    IF i > Len(steps) THEN m
    ELSE runSteps(migrationStep(m, steps[i], tabs), steps, tabs, i + 1)

\* runMainDbMigrations: nothing is done without the users table; the catch
\* block keeps every error inside
checkAndApplyMigrations(m) ==
    IF ~TableExists(m, "users") THEN m
    ELSE tryCatch(runSteps(m, MainMigrationSteps, MainMigrationTables, 1))

runWarehouseMigrations(m) ==
    tryCatch(runSteps(m, WarehouseMigrationSteps, WarehouseSchema, 1))

\* reads table_info(knowledge_base_paths) and changes nothing
runAiMigrations(m) == m

runNotificationsMigrations(m) == m

\* the migration function that the switch of runMigrations selects
Migrator(id, m) ==
    CASE id = MAIN_ID -> checkAndApplyMigrations(m)
      [] id = WAREHOUSE_ID -> runWarehouseMigrations(m)
      [] id = NOTIFICATIONS_ID -> runNotificationsMigrations(m)
      [] OTHER -> runAiMigrations(m)

initializeMainDatabase(m) ==
    LET m1 == execSchema(m, MainSchema)
        m2 == insertOrIgnore(m1, "roles", {initialRoles[i] : i \in DOMAIN initialRoles})
        m3 == insertOrIgnore(m2, "company_settings", {1})
        m4 == insertOrIgnore(m3, "api_settings", {1})
    IN  IF m4.err THEN uncaught(m4) ELSE checkAndApplyMigrations(m4)

initializeWarehouseDb(m) ==
    LET m1 == insertOrIgnore(execSchema(m, WarehouseSchema), "warehouse_config", {"settings"})
    IN  IF m1.err THEN uncaught(m1) ELSE runWarehouseMigrations(m1)

initializeNotificationsDb(m) ==
    uncaught(insertOrIgnore(execSchema(m, NotificationsSchema),
                            "notification_settings", {"telegram"}))

initializeAiDb(m) == uncaught(execSchema(m, AiSchema))

\* the Initializer that the if-chain of connectDb selects
Initializer(id, m) ==
    CASE id = MAIN_ID -> initializeMainDatabase(m)
      [] id = WAREHOUSE_ID -> initializeWarehouseDb(m)
      [] id = NOTIFICATIONS_ID -> initializeNotificationsDb(m)
      [] OTHER -> initializeAiDb(m)

\* ----------------------------------------------------- getInitialPageData
\* a call of getInitialPageData: where it is, what getUserCount and
\* getCompanySettings have given, what it has returned
IdleRequest == [pc |-> "idle", userCount |-> "pending", company |-> "pending",
                result |-> "none"]

\* let cronInitialized = false, no call of runScheduledTasks yet
NoPage == [cronInitialized |-> FALSE, cronRuns |-> 0, req |-> [p \in Callers |-> IdleRequest]]

\* getInitialPageData from its entry to its first await: the test of the
\* flag, and the call of runScheduledTasks when it is not set
getInitialPageData(g, p) ==
    IF ~g.cronInitialized
    THEN [g EXCEPT !.cronRuns = @ + 1, !.req[p].pc = "awaitCron"]
    ELSE [g EXCEPT !.req[p].pc = "awaitData"]

\* after `await runScheduledTasks()`: cronInitialized = true, then the calls
\* of getUserCount and getCompanySettings under Promise.all
afterRunScheduledTasks(g, p) ==
    [g EXCEPT !.cronInitialized = TRUE, !.req[p].pc = "awaitData"]

\* getUserCount catches every error and returns 0 then
UserCounts == {"zero", "some"}

\* getCompanySettings returns the settings or null, and rejects when its
\* connectDb() does
CompanyOutcomes == {"settings", "null", "rejected"}

\* Promise.all is settled when one of the two has rejected or both have
\* resolved
settled(r) == r.company = "rejected" \/ (r.userCount # "pending" /\ r.company # "pending")

\* the value returned: { hasUsers, companyName } or, from the catch block,
\* { error }
pageData(r) ==
    IF r.company = "rejected" THEN "error"
    ELSE IF r.userCount = "some" THEN "hasUsers" ELSE "noUsers"

\* ------------------------------------------------------------------ state
Inputs == [openErr : BOOLEAN, ts : 1..MaxTime,
           mig : {"ok", "caught", "throw"}, pragma : {"ok", "fail", "corrupt"}]

\* in the runs of queryLocalDb the migrations and the PRAGMA succeed
FedInputs == {in \in Inputs : in.mig = "ok" /\ in.pragma = "ok"}

MigInputOk(c, in) ==
    LET m == FindModule(c.file)
    IN  IF m = NoModule THEN in.mig = "ok" ELSE in.mig \in MigOutcomes(m)

AuxFiles == {allModuleDbs[i].dbFile : i \in DOMAIN allModuleDbs}

QueryInputs == [attachFail : SUBSET (FedFiles \cap AuxFiles),
                stmt : {"ok", "error"},
                detachFail : SUBSET (FedFiles \cap AuxFiles)]

Apply(p, r) ==
    /\ dirExists' = r.w.dirExists
    /\ disk' = r.w.disk
    /\ inodes' = r.w.inodes
    /\ quarantine' = r.w.quarantine
    /\ handles' = r.w.handles
    /\ dbConnections' = r.w.dbConnections
    /\ callers' = [callers EXCEPT ![p] = r.c]
    /\ UNCHANGED <<sdb, page>>

\* the process starts with an empty connection cache; st gives the state in
\* which the previous run left each file of the dbs directory
InitFrom(st) ==
    /\ dirExists = (\E f \in DOMAIN st : st[f] # "absent")
    /\ disk = [f \in Files |->
                 IF f \in DOMAIN st /\ st[f] # "absent" THEN FileIndex(f) ELSE Absent]
    /\ inodes = [i \in DOMAIN FileSeq |->
                   IF FileSeq[i] \in DOMAIN st /\ st[FileSeq[i]] = "legacy" THEN LegacyInode
                   ELSE IF FileSeq[i] \in DOMAIN st /\ st[FileSeq[i]] = "corrupt" THEN CorruptInode
                   ELSE EmptyInode]
    /\ quarantine = {}
    /\ handles = <<>>
    /\ dbConnections = [f \in Files |-> NoHandle]
    /\ callers = [p \in Callers |-> IdleCaller]
    /\ calls = 0

Init ==
    /\ \E st \in [TargetFiles -> {"absent", "legacy", "corrupt"}] : InitFrom(st)
    /\ sdb = NoDatabase
    /\ page = NoPage

InitFed ==
    /\ \E st \in [FedFiles -> {"absent", "legacy"}] : InitFrom(st)
    /\ sdb = NoDatabase
    /\ page = NoPage

\* the caller record of a new call
NewCall(op, f, force) ==
    [IdleCaller EXCEPT !.op = op, !.file = f, !.force = force, !.seq = calls + 1,
                       !.startHandle = dbConnections[f], !.startIno = disk[f],
                       !.overlaps = {callers[q].seq : q \in
                                       {r \in Callers :
                                          callers[r].pc \notin {"idle", "done", "failed"}}}]

\* a caller calls connectDb(dbFile, forceRecreate)
ConnectStart(p) ==
    /\ callers[p].pc = "idle"
    /\ calls < MaxCalls
    /\ calls' = calls + 1
    /\ \E f \in TargetFiles, force \in BOOLEAN, in \in Inputs :
        /\ MigInputOk(NewCall("connect", f, force), in)
        /\ Apply(p, connectDb(World, NewCall("connect", f, force), in))

\* a caller calls connectDb(DB_FILE, true) while queries are served
RecreateMain(p) ==
    /\ callers[p].pc = "idle"
    /\ calls < MaxCalls
    /\ calls' = calls + 1
    /\ \E in \in FedInputs :
        Apply(p, connectDb(World, NewCall("connect", DB_FILE, TRUE), in))

ConnectAfterCorruptLog(p) ==
    /\ UNCHANGED calls
    /\ callers[p].pc = "awaitLogCorrupt"
    /\ \E in \in Inputs, logged \in logErrorOutcomes :
        /\ MigInputOk(callers[p], in)
        /\ Apply(p, afterCorruptLog(World, callers[p], in))

ConnectAfterInit(p) ==
    /\ UNCHANGED calls
    /\ callers[p].pc = "awaitInit"
    /\ \E in \in Inputs :
        /\ MigInputOk(callers[p], in)
        /\ Apply(p, runMigrations(World, callers[p], FindModule(callers[p].file), in.mig))

ConnectAfterMig(p) ==
    /\ UNCHANGED calls
    /\ callers[p].pc = "awaitMig"
    /\ \E in \in Inputs :
        Apply(p, setJournalMode(World, callers[p], in.pragma))

ConnectAfterPragmaLog(p) ==
    /\ UNCHANGED calls
    /\ callers[p].pc = "awaitLogPragma"
    /\ \E logged \in logErrorOutcomes : Apply(p, cacheAndReturn(World, callers[p]))

FedAfterInit(p) ==
    /\ UNCHANGED calls
    /\ callers[p].pc = "awaitInit"
    /\ Apply(p, runMigrations(World, callers[p], FindModule(callers[p].file), "ok"))

FedAfterMig(p) ==
    /\ UNCHANGED calls
    /\ callers[p].pc = "awaitMig"
    /\ Apply(p, setJournalMode(World, callers[p], "ok"))

\* chatWithData has the model's answer and calls queryLocalDb(sqlQuery), the
\* only call of queryLocalDb in the program: const mainDb = await connectDb()
QueryStart(p) ==
    /\ callers[p].pc = "idle"
    /\ calls < MaxCalls
    /\ calls' = calls + 1
    /\ \E in \in FedInputs, llmResponse \in LlmResponses :
        /\ sqlQuery(llmResponse) # "none"
        /\ Apply(p, connectDb(World, [NewCall("query", DB_FILE, FALSE)
                                        EXCEPT !.sql = sqlQuery(llmResponse)], in))

QueryBody(p) ==
    /\ UNCHANGED calls
    /\ callers[p].pc = "awaitConnect"
    /\ \E in \in QueryInputs :
        Apply(p, queryLocalDb(World, callers[p], in))

\* the caller has consumed the outcome of its call
Return(p) ==
    /\ callers[p].pc \in {"done", "failed"}
    /\ callers' = [callers EXCEPT ![p] = IdleCaller]
    /\ UNCHANGED <<dirExists, disk, inodes, quarantine, handles, dbConnections, calls, sdb,
                   page>>

Next ==
    \E p \in Callers :
        \/ ConnectStart(p)
        \/ ConnectAfterCorruptLog(p)
        \/ ConnectAfterInit(p)
        \/ ConnectAfterMig(p)
        \/ ConnectAfterPragmaLog(p)
        \/ Return(p)

Spec == Init /\ [][Next]_vars

NextFed ==
    \E p \in Callers :
        \/ QueryStart(p)
        \/ RecreateMain(p)
        \/ FedAfterInit(p)
        \/ FedAfterMig(p)
        \/ QueryBody(p)
        \/ Return(p)

SpecFed == InitFed /\ [][NextFed]_vars

\* ------------------------------------------- databases of earlier versions
\* what may be older than the current schema in a main database file
LegacyFeatures == {"oldNotifications", "oldUsers", "oldCompany", "oldPurchaseOrderLines",
                   "noLaterTables", "noUsers"}

\* the tables that earlier versions did not create
LaterTables == DOMAIN MainMigrationTables \ {"erp_purchase_order_lines"}

LegacyColumns(F, t) ==
    CASE t = "notifications" /\ "oldNotifications" \in F ->
            MainSchema[t] \ {"entityId", "entityType", "taskType", "entityStatus"}
      [] t = "users" /\ "oldUsers" \in F ->
            MainSchema[t] \ {"erpAlias", "forcePasswordChange", "activeWizardSession"}
      [] t = "company_settings" /\ "oldCompany" \in F ->
            {"id", "name", "taxId", "address", "phone", "email", "systemName",
             "quotePrefix", "nextQuoteNumber", "importPath"}
      [] t = "erp_purchase_order_lines" /\ "oldPurchaseOrderLines" \in F ->
            {"id", "ARTICULO", "CANTIDAD_ORDENADA"}
      [] OTHER -> MainSchema[t]

LegacyMainSchema(F) ==
    LET gone == (IF "noLaterTables" \in F THEN LaterTables ELSE {})
                \cup (IF "noUsers" \in F THEN {"users"} ELSE {})
    IN  [t \in DOMAIN MainSchema \ gone |-> LegacyColumns(F, t)]

\* the users an earlier version may have stored
LegacyUsers ==
    {u1 \cup u2 :
        u1 \in {{}, {[id |-> 1, password |-> PlainPassword(""), role |-> "user"]}},
        u2 \in {{}, {[id |-> 2, password |-> NoPassword, role |-> "user"]},
                    {[id |-> 2, password |-> BcryptHash("$2b$"), role |-> "user"]},
                    {[id |-> 2, password |-> PlainPassword("$2a$"), role |-> "user"]}}}

LegacyMainRows(schema, users) ==
    [t \in DOMAIN schema |->
        CASE t = "users" -> users
          [] t = "roles" -> {initialRoles[i] : i \in DOMAIN initialRoles}
          [] t \in {"company_settings", "api_settings"} -> {1}
          [] t = "erp_purchase_order_lines" -> {"OC-1"}
          [] OTHER -> {}]

\* warehouse database files of earlier versions: any of the columns that
\* runWarehouseMigrations tests for may be missing, and the dispatch tables
\* may be
LegacyWarehouseSchemas ==
    LET checked == {"lockedByUserId", "lockedAt"}
    IN  {EmptyDb}
        \cup {[WarehouseSchema EXCEPT !["locations"] = @ \ L,
                                      !["dispatch_containers"] = @ \ D] :
                 L \in SUBSET checked, D \in SUBSET checked}
        \cup {[t \in DOMAIN WarehouseSchema \ {"dispatch_containers", "dispatch_assignments"}
                  |-> WarehouseSchema[t] \ (IF t = "locations" THEN L ELSE {})] :
                 L \in SUBSET checked}

\* the database file of a module when the process starts: created just now,
\* or left by an earlier version of the program
StartDatabases ==
    {Database(id, "fresh", EmptyDb, EmptyDb) : id \in SchemaModules}
    \cup {Database(MAIN_ID, "legacy", LegacyMainSchema(F),
                   LegacyMainRows(LegacyMainSchema(F), users)) :
             F \in SUBSET LegacyFeatures, users \in LegacyUsers}
    \cup {Database(WAREHOUSE_ID, "legacy", s,
                   [t \in DOMAIN s |-> IF t = "warehouse_config" THEN {"settings"} ELSE {}]) :
             s \in LegacyWarehouseSchemas}
    \cup {Database(id, "legacy", EmptyDb, EmptyDb) : id \in {NOTIFICATIONS_ID, AI_ID}}
    \cup {Database(id, "legacy", ModuleSchema(id), [t \in DOMAIN ModuleSchema(id) |-> {}]) :
             id \in {NOTIFICATIONS_ID, AI_ID}}

Run(op, m) ==
    sdb' = [sdb EXCEPT !.schema = m.schema, !.rows = m.rows,
                       !.prev = [schema |-> sdb.schema, rows |-> sdb.rows],
                       !.ops = Append(@, op), !.ddl = m.ddl, !.err = m.err,
                       !.thrown = m.thrown, !.failAt = m.failAt]

StartRun(failAt) ==
    [schema |-> sdb.schema, rows |-> sdb.rows, ddl |-> <<>>, err |-> FALSE, thrown |-> FALSE,
     failAt |-> failAt]

InitSchema ==
    /\ InitFrom([f \in TargetFiles |-> "absent"])
    /\ sdb \in StartDatabases
    /\ page = NoPage

\* connectDb runs the Initializer on a file that it has found absent
RunInitializer ==
    /\ sdb.origin = "fresh" /\ Len(sdb.ops) < MaxRuns
    /\ Run("init", Initializer(sdb.module, StartRun(0)))
    /\ UNCHANGED <<connVars, page>>

\* connectDb runs the Migrator, after the Initializer or on an existing file
RunMigrator ==
    /\ sdb.origin = "legacy" \/ sdb.ops # <<>>
    /\ Len(sdb.ops) < MaxRuns
    /\ \E failAt \in 0..MaxFailAt : Run("migrate", Migrator(sdb.module, StartRun(failAt)))
    /\ UNCHANGED <<connVars, page>>

NextSchema == RunInitializer \/ RunMigrator

SpecSchema == InitSchema /\ [][NextSchema]_vars

\* ------------------------------------------- a file name without a module
InitAdHoc ==
    /\ \E st \in [{AdHocFile} -> {"absent", "legacy", "corrupt"}] : InitFrom(st)
    /\ sdb = NoDatabase
    /\ page = NoPage

\* a caller calls connectDb with a file name that no module of DB_MODULES has
ConnectAdHoc(p) ==
    /\ callers[p].pc = "idle"
    /\ calls < MaxCalls
    /\ calls' = calls + 1
    /\ \E force \in BOOLEAN, in \in Inputs :
        /\ MigInputOk(NewCall("connect", AdHocFile, force), in)
        /\ Apply(p, connectDb(World, NewCall("connect", AdHocFile, force), in))

NextAdHoc ==
    \E p \in Callers :
        \/ ConnectAdHoc(p)
        \/ ConnectAfterCorruptLog(p)
        \/ ConnectAfterPragmaLog(p)
        \/ Return(p)

SpecAdHoc == InitAdHoc /\ [][NextAdHoc]_vars

\* ------------------------------------------- handles closed by their holder
InitClosed ==
    /\ \E st \in [TargetFiles -> {"absent", "legacy"}] : InitFrom(st)
    /\ sdb = NoDatabase
    /\ page = NoPage

\* a caller calls connectDb(dbFile)
ConnectPlain(p) ==
    /\ callers[p].pc = "idle"
    /\ calls < MaxCalls
    /\ calls' = calls + 1
    /\ \E f \in TargetFiles, in \in FedInputs :
        Apply(p, connectDb(World, NewCall("connect", f, FALSE), in))

\* code that has received a handle from connectDb calls close() on it; the
\* entry of dbConnections stays
CloseHandle ==
    /\ \E f \in TargetFiles :
        /\ IsOpen(World, dbConnections[f])
        /\ handles' = close(World, dbConnections[f]).handles
    /\ UNCHANGED <<dirExists, disk, inodes, quarantine, dbConnections, callers, calls, sdb,
                   page>>

NextClosed ==
    \/ CloseHandle
    \/ \E p \in Callers :
        \/ ConnectPlain(p)
        \/ FedAfterInit(p)
        \/ FedAfterMig(p)
        \/ Return(p)

SpecClosed == InitClosed /\ [][NextClosed]_vars


\* ------------------------------------------------------------------ claims

OpenHandles(f) == {h \in DOMAIN handles : handles[h].file = f /\ handles[h].open}

\* ------------------------------------------------ the entry page's action
InitCron ==
    /\ InitFrom([f \in TargetFiles |-> "absent"])
    /\ sdb = NoDatabase
    /\ page = NoPage

\* a client calls the server action getInitialPageData
PageStart(p) ==
    /\ page.req[p].pc = "idle"
    /\ calls < MaxCalls
    /\ calls' = calls + 1
    /\ page' = getInitialPageData(page, p)
    /\ UNCHANGED <<dirExists, disk, inodes, quarantine, handles, dbConnections, callers, sdb>>

PageAfterCron(p) ==
    /\ page.req[p].pc = "awaitCron"
    /\ page' = afterRunScheduledTasks(page, p)
    /\ UNCHANGED <<connVars, sdb>>

PageUserCount(p) ==
    /\ page.req[p].pc = "awaitData" /\ page.req[p].userCount = "pending"
    /\ \E n \in UserCounts : page' = [page EXCEPT !.req[p].userCount = n]
    /\ UNCHANGED <<connVars, sdb>>

PageCompany(p) ==
    /\ page.req[p].pc = "awaitData" /\ page.req[p].company = "pending"
    /\ \E o \in CompanyOutcomes : page' = [page EXCEPT !.req[p].company = o]
    /\ UNCHANGED <<connVars, sdb>>

PageReturn(p) ==
    /\ page.req[p].pc = "awaitData" /\ settled(page.req[p])
    /\ page' = [page EXCEPT !.req[p].pc = "done", !.req[p].result = pageData(page.req[p])]
    /\ UNCHANGED <<connVars, sdb>>

\* the client has the answer of its call
PageDone(p) ==
    /\ page.req[p].pc = "done"
    /\ page' = [page EXCEPT !.req[p] = IdleRequest]
    /\ UNCHANGED <<connVars, sdb>>

NextCron ==
    \E p \in Callers :
        \/ PageStart(p)
        \/ PageAfterCron(p)
        \/ PageUserCount(p)
        \/ PageCompany(p)
        \/ PageReturn(p)
        \/ PageDone(p)

SpecCron == InitCron /\ [][NextCron]_vars

\* C1: in every reachable state, whatever the interleaving of the connectDb
\* calls at their await points, at most one open database handle exists per
\* file name
AtMostOneOpenHandlePerFile ==
    \A f \in Files : Cardinality(OpenHandles(f)) <= 1

Last(s) == s[Len(s)]

MigEvents == {"migrate", "migrateFail", "migrateThrow"}

CountIn(s, E) == Cardinality({i \in DOMAIN s : s[i] \in E})

Registered(f) == FindModule(f) # NoModule

\* C2: after queryLocalDb completes, by a return or by a throw, no auxiliary
\* schema remains attached to the main handle and every schema that the call
\* attached got a detach attempt
FederationCleanup ==
    \A p \in Callers :
        (callers[p].op = "query" /\ callers[p].pc \in {"done", "failed"}
            /\ callers[p].db # NoHandle)
        => /\ handles[callers[p].db].attached = {}
           /\ callers[p].attachedByCall \subseteq callers[p].detachTried

\* C3: a call that opens a registered module's file that did not exist (also
\* after the quarantine of a corrupt file) has run the Initializer exactly
\* once, and the Initializer is complete while the handle is neither in the
\* cache nor held by any caller
InitializerOnceBeforeVisible ==
    \A p \in Callers :
        LET c == callers[p]
        IN  (Registered(c.file) /\ Has(c.log, "open") /\ ~c.dbExists)
            => /\ Count(c.log, "init") = 1
               /\ inodes[handles[c.db].ino].inited
               /\ \A i, j \in DOMAIN c.log :
                      (c.log[i] = "init" /\ c.log[j] = "cache") => i < j
               /\ (c.pc \in {"awaitInit", "awaitMig", "awaitLogPragma"})
                  => /\ dbConnections[c.file] # c.db
                     /\ c.result = NoHandle
                     /\ \A q \in Callers \ {p} :
                            callers[q].db # c.db /\ callers[q].result # c.db

InitializerOnceWitness ==
    \E p \in Callers :
        /\ callers[p].pc = "done" /\ ~callers[p].dbExists
        /\ Count(callers[p].log, "init") = 1
        /\ dbConnections[callers[p].file] = callers[p].result
        /\ callers[p].result # NoHandle

\* C4: the only exceptions that leave queryLocalDb are fatal open errors of
\* the main handle and errors of the caller's statement; a failure to attach
\* or to detach never leaves it
OnlyOpenAndStatementErrorsPropagate ==
    \A p \in Callers :
        (callers[p].op = "query" /\ callers[p].pc = "failed")
        => callers[p].error \in {"open", "stmt"}

\* C5: a call without forceRecreate that finds an open handle in the cache
\* returns that very handle and opens no file, runs no Initializer and no
\* Migrator: it changes nothing but the caller's own state
CacheHitReturnsSameHandle ==
    [][\A p \in Callers :
          (callers[p].pc = "idle" /\ callers'[p].pc # "idle" /\ ~callers'[p].force
              /\ IsOpen(World, dbConnections[callers'[p].file]))
          => /\ callers'[p].result = dbConnections[callers'[p].file]
             /\ callers'[p].pc \in {"done", "awaitConnect"}
             /\ callers'[p].log = <<>>
             /\ handles' = handles /\ inodes' = inodes /\ disk' = disk
             /\ dbConnections' = dbConnections /\ quarantine' = quarantine]_vars

CacheHitWitness ==
    \E p \in Callers :
        /\ callers[p].pc = "done" /\ ~callers[p].force /\ callers[p].log = <<>>
        /\ callers[p].startHandle # NoHandle
        /\ callers[p].result = callers[p].startHandle
        /\ handles[callers[p].result].open

\* C6: a call whose Migrator throws or fails partway does not fail: it goes on
\* to the durability setting, puts its handle in the cache and returns it; and
\* a call for another module that starts after that failure runs its Migrator
MigrationFailureIsSwallowed ==
    \A p \in Callers :
        LET c == callers[p]
        IN  /\ (Has(c.log, "migrateFail") \/ Has(c.log, "migrateThrow"))
               => /\ c.pc # "failed" /\ c.error = "none"
                  /\ c.pc = "done"
                     => /\ c.db # NoHandle /\ c.result = c.db
                        /\ CountIn(c.log, {"wal", "walFail"}) = 1
                        /\ Last(c.log) = "cache"
            /\ \A q \in Callers \ {p} :
                  LET d == callers[q]
                  IN  (/\ (Has(d.log, "migrateFail") \/ Has(d.log, "migrateThrow"))
                       /\ d.dbExists /\ d.seq < c.seq /\ d.file # c.file
                       /\ Registered(c.file) /\ c.pc = "done" /\ Has(c.log, "open"))
                      => CountIn(c.log, MigEvents) = 1

MigrationFailureWitness ==
    \E p, q \in Callers :
        /\ Has(callers[q].log, "migrateThrow") /\ callers[q].dbExists
        /\ callers[q].pc = "done" /\ callers[q].result # NoHandle
        /\ callers[q].seq < callers[p].seq /\ callers[q].file # callers[p].file
        /\ callers[p].pc = "done" /\ Has(callers[p].log, "migrate")

\* C7: a call whose open fails with the corruption signal keeps the corrupt
\* file under <file>.corrupt.<timestamp>, opens a new file in its place, runs
\* the Initializer on it as for a file that never existed, raises no error and
\* returns the handle it has put in the cache
CorruptionRecovery ==
    \A p \in Callers :
        LET c == callers[p]
        IN  Has(c.log, "openCorrupt")
            => /\ \E q \in quarantine :
                     q.file = c.file /\ q.ino = c.startIno /\ inodes[q.ino].corrupt
               /\ c.pc # "failed" /\ c.error = "none"
               /\ (c.pc # "awaitLogCorrupt")
                  => /\ c.db # NoHandle /\ ~c.dbExists
                     /\ handles[c.db].ino # c.startIno
                     /\ handles[c.db].ino > Len(FileSeq)
                     /\ ~inodes[handles[c.db].ino].corrupt
                     /\ ~inodes[handles[c.db].ino].data
                     /\ Registered(c.file)
                        => (Count(c.log, "init") = 1 /\ inodes[handles[c.db].ino].inited)
               /\ (c.pc = "done") => (c.result = c.db /\ Last(c.log) = "cache")

CorruptionRecoveryWitness ==
    \E p \in Callers :
        /\ Has(callers[p].log, "openCorrupt") /\ callers[p].pc = "done"
        /\ dbConnections[callers[p].file] = callers[p].result
        /\ handles[callers[p].result].open
        /\ quarantine # {}

\* C8: connectDb(file, true) on an existing registered module file closes the
\* cached handle, deletes the file and goes on as for an absent file: the
\* Initializer runs again and the handle is on a new file that holds none of
\* the data of the file that was there before the call
ForcedRecreation ==
    \A p \in Callers :
        LET c == callers[p]
        IN  (c.pc # "idle" /\ c.force /\ c.startIno # Absent /\ Registered(c.file))
            => /\ Has(c.log, "unlink")
               /\ (c.startHandle # NoHandle) => ~handles[c.startHandle].open
               /\ (c.db # NoHandle)
                  => /\ ~c.dbExists
                     /\ handles[c.db].ino # c.startIno
                     /\ ~inodes[handles[c.db].ino].data
                     /\ Count(c.log, "init") = 1
                     /\ inodes[handles[c.db].ino].inited

ForcedRecreationWitness ==
    \E p \in Callers :
        /\ callers[p].pc = "done" /\ callers[p].force
        /\ callers[p].startHandle # NoHandle
        /\ callers[p].startIno # Absent /\ inodes[callers[p].startIno].data
        /\ callers[p].result # NoHandle /\ callers[p].result # callers[p].startHandle

\* C9: when the open fails for a reason other than corruption the call throws
\* that error, creates no Database object (no second attempt), runs neither
\* Initializer nor Migrator and leaves no cache entry for the file name
FatalOpenErrorPropagates ==
    [][\A p \in Callers :
          Has(callers'[p].log, "openError")
          => /\ callers'[p].pc = "failed" /\ callers'[p].error = "open"
             /\ callers'[p].db = NoHandle /\ callers'[p].result = NoHandle
             /\ Count(callers'[p].log, "openError") = 1
             /\ CountIn(callers'[p].log, {"open", "init", "initMigrate", "initMigrateFail",
                                         "wal", "walFail", "cache"} \cup MigEvents) = 0
             /\ (callers[p].pc = "idle")
                => /\ dbConnections'[callers'[p].file] = NoHandle
                   /\ Len(handles') = Len(handles)
                   /\ inodes' = inodes]_vars

FatalOpenErrorWitness ==
    \E p \in Callers :
        /\ callers[p].pc = "failed" /\ callers[p].error = "open"
        /\ callers[p].startHandle # NoHandle
        /\ dbConnections[callers[p].file] = NoHandle

\* the place of a step in the order of a cold connectDb
Rank(e) ==
    CASE e = "dir" -> 1
      [] e \in {"unlink", "openCorrupt", "rename"} -> 2
      [] e = "open" -> 3
      [] e = "init" -> 4
      [] e \in {"initMigrate", "initMigrateFail"} -> 5
      [] e \in MigEvents -> 6
      [] e \in {"wal", "walFail"} -> 7
      [] OTHER -> 8

\* C10: a completed cold connectDb of a registered module has ensured the
\* directory, opened the file, run the Initializer if and only if the file was
\* new, run the Migrator, applied the durability setting and put the handle in
\* the cache, once each and in this order
ColdAcquireStepOrder ==
    \A p \in Callers :
        LET c == callers[p]
        IN  (Registered(c.file) /\ c.pc = "done" /\ c.log # <<>>)
            => /\ dirExists
               /\ Count(c.log, "dir") = 1
               /\ Count(c.log, "open") = 1
               /\ Count(c.log, "init") = (IF c.dbExists THEN 0 ELSE 1)
               /\ CountIn(c.log, MigEvents) = 1
               /\ CountIn(c.log, {"wal", "walFail"}) = 1
               /\ Count(c.log, "cache") = 1
               /\ \A i, j \in DOMAIN c.log :
                      Rank(c.log[i]) < Rank(c.log[j]) => i < j

ColdAcquireWitness ==
    \E p, q \in Callers :
        /\ callers[p].pc = "done" /\ callers[p].dbExists /\ Has(callers[p].log, "migrate")
        /\ callers[q].pc = "done" /\ ~callers[q].dbExists /\ Has(callers[q].log, "init")
        /\ Has(callers[q].log, "migrate")

LastOp == IF sdb.ops = <<>> THEN "none" ELSE Last(sdb.ops)

\* the primary keys of the rows of a table
RowKeys(t, rs) == IF t = "users" THEN {u.id : u \in rs} ELSE rs

\* C12: when a run of a Migrator has rebuilt a table (it has issued DROP
\* TABLE), whether or not one of its statements failed, every table that
\* existed before the run exists after it and holds every row it held
TableRebuildKeepsRows ==
    (LastOp = "migrate" /\ Has(sdb.ddl, "DROP"))
    => \A t \in DOMAIN sdb.prev.schema :
          /\ t \in DOMAIN sdb.schema
          /\ RowKeys(t, sdb.prev.rows[t]) \subseteq RowKeys(t, sdb.rows[t])

\* C14: a run of a module's Migrator on a database whose tables and columns
\* are those of the module's Initializer issues no ALTER, CREATE or DROP
\* statement, fails nowhere and leaves tables and columns as they are; on the
\* database that the Initializer has left, after any number of runs, it
\* changes no row either
MigratorIsNoOpOnCurrentSchema ==
    /\ (LastOp = "migrate" /\ sdb.prev.schema = ModuleSchema(sdb.module))
       => (sdb.ddl = <<>> /\ ~sdb.err /\ sdb.schema = sdb.prev.schema)
    /\ (LastOp = "migrate" /\ sdb.origin = "fresh")
       => /\ sdb.prev.schema = ModuleSchema(sdb.module)
          /\ sdb.ddl = <<>> /\ ~sdb.err
          /\ sdb.schema = sdb.prev.schema /\ sdb.rows = sdb.prev.rows

MigratorIsNoOpWitness ==
    /\ sdb.module = MAIN_ID /\ sdb.origin = "fresh"
    /\ sdb.ops = <<"init", "migrate", "migrate">>
    /\ sdb.schema = MainSchema /\ sdb.rows["roles"] # {}

\* C15: a second call of a module's Initializer on the handle of a new file
\* raises no error and leaves the tables, the columns and the rows that the
\* first call has left: no seed row is added or changed
InitializerIsIdempotent ==
    (LastOp = "init" /\ Len(sdb.ops) >= 2)
    => /\ ~sdb.err
       /\ sdb.schema = sdb.prev.schema /\ sdb.rows = sdb.prev.rows
       /\ sdb.schema = ModuleSchema(sdb.module)

InitializerTwiceWitness ==
    /\ sdb.ops = <<"init", "init">> /\ sdb.module = MAIN_ID
    /\ sdb.rows["roles"] = {initialRoles[i] : i \in DOMAIN initialRoles}
    /\ sdb.rows["company_settings"] = {1}

\* the table whose presence tells that a module's database is initialized
FoundationalTable(id) ==
    CASE id = MAIN_ID -> "users"
      [] id = WAREHOUSE_ID -> "locations"
      [] id = NOTIFICATIONS_ID -> "notification_rules"
      [] OTHER -> "knowledge_base_paths"

\* C16: for every module, a run of the Migrator on a database without the
\* module's foundational table issues no schema-changing statement, raises no
\* error, not even one that it catches itself, and changes nothing
MigratorReturnsWithoutFoundation ==
    (LastOp = "migrate" /\ FoundationalTable(sdb.module) \notin DOMAIN sdb.prev.schema)
    => /\ sdb.ddl = <<>> /\ ~sdb.err
       /\ sdb.schema = sdb.prev.schema /\ sdb.rows = sdb.prev.rows

\* C20: after a run of the main Migrator in which no statement failed, every
\* stored password that is not empty is a bcrypt hash, and a password that was
\* a bcrypt hash before the run is the same after it
PasswordHashingSelfTerminates ==
    (LastOp = "migrate" /\ ~sdb.err /\ sdb.module = MAIN_ID /\ "users" \in DOMAIN sdb.schema)
    => /\ \A u \in sdb.rows["users"] : ~u.password.empty => u.password.hashes >= 1
       /\ \A u \in sdb.prev.rows["users"] :
              u.password.hashes >= 1
              => \E v \in sdb.rows["users"] : v.id = u.id /\ v.password = u.password

\* C13: a query that chatWithData passes to queryLocalDb is executed only if
\* it is a SELECT: no call returns the result of stmt.run(), and a call that
\* completes has executed a SELECT
ChatQueriesAreReadOnly ==
    \A p \in Callers :
        callers[p].op = "query"
        => /\ callers[p].qres # "writeResult"
           /\ callers[p].pc = "done" => callers[p].sql = "select"

\* C17: connectDb for a file name that no module has opens the file, creating
\* it when it is absent, runs no Initializer and no Migrator, raises no error
\* but that of a failed open, and returns the handle it has put in the cache
AdHocFileIsOpenedUntouched ==
    \A p \in Callers :
        LET c == callers[p]
        IN  (c.pc # "idle" /\ c.file = AdHocFile)
            => /\ CountIn(c.log, {"init", "initMigrate", "initMigrateFail"} \cup MigEvents) = 0
               /\ c.pc \notin {"awaitInit", "awaitMig"}
               /\ c.error \in {"none", "open"}
               /\ (c.error = "open") => Has(c.log, "openError")
               /\ (c.db # NoHandle)
                  => /\ handles[c.db].file = AdHocFile
                     /\ (handles[c.db].ino > Len(FileSeq))
                        => ~inodes[handles[c.db].ino].inited
                     /\ ~inodes[handles[c.db].ino].current
               /\ (c.pc = "done" /\ c.log # <<>>)
                  => /\ Count(c.log, "open") = 1 /\ Last(c.log) = "cache"
                     /\ c.result = c.db /\ handles[c.db].ino \in 1..Len(inodes)

AdHocFileWitness ==
    \E p \in Callers :
        /\ callers[p].file = AdHocFile /\ callers[p].pc = "done"
        /\ callers[p].startIno = Absent /\ ~callers[p].force
        /\ disk[AdHocFile] # Absent
        /\ dbConnections[AdHocFile] = callers[p].result
        /\ handles[callers[p].result].open

\* C18: a call without forceRecreate that finds in the cache a handle that is
\* closed removes the entry and, unless the open fails, opens a new handle on
\* the file that is there, runs the Migrator and not the Initializer, and in
\* the end has put the new handle in the cache in place of the old one
ClosedCachedHandleIsReplaced ==
    /\ [][\A p \in Callers :
            LET c == callers'[p]
                old == dbConnections[c.file]
            IN  (/\ callers[p].pc = "idle" /\ c.pc # "idle" /\ ~c.force
                 /\ old # NoHandle /\ ~IsOpen(World, old))
                => /\ dbConnections'[c.file] = NoHandle
                   /\ \/ c.pc = "failed" /\ c.error = "open"
                      \/ /\ c.db = Len(handles') /\ Len(handles') = Len(handles) + 1
                         /\ handles'[c.db].open /\ handles'[c.db].ino = disk[c.file]
                         /\ c.dbExists /\ Count(c.log, "init") = 0
                         /\ Registered(c.file) => CountIn(c.log, MigEvents) = 1]_vars
    /\ [][\A p \in Callers :
            LET c == callers'[p]
            IN  (/\ callers[p].pc # "done" /\ c.pc = "done" /\ ~c.force
                 /\ c.startHandle # NoHandle /\ c.log # <<>>)
                => /\ c.result = c.db /\ c.db # c.startHandle
                   /\ Last(c.log) = "cache"
                   /\ dbConnections'[c.file] = c.db]_vars

ClosedCachedHandleWitness ==
    \E p \in Callers :
        /\ callers[p].pc = "done" /\ ~callers[p].force
        /\ callers[p].startHandle # NoHandle /\ ~handles[callers[p].startHandle].open
        /\ callers[p].result # callers[p].startHandle
        /\ dbConnections[callers[p].file] = callers[p].result
        /\ handles[callers[p].result].open
        /\ Has(callers[p].log, "migrate") /\ ~Has(callers[p].log, "init")

\* a module id with every hyphen replaced by an underscore
Underscored(id) == [i \in 1..Len(id) |-> IF id[i] = "-" THEN "_" ELSE id[i]]

\* the aliases of the registered modules other than the main one whose file
\* is on the disk
ExistingAuxAliases ==
    {Underscored(DB_MODULES[i].id) :
        i \in {j \in DOMAIN DB_MODULES :
                  DB_MODULES[j].id # MAIN_ID /\ disk[DB_MODULES[j].dbFile] # Absent}}

\* C19: the ATTACH loop of queryLocalDb attaches the non-main modules whose
\* file is on the disk, each as its id with underscores for hyphens, and
\* nothing else: all of them when no ATTACH throws, never the main module,
\* never a module whose file is absent; and no step of a queryLocalDb call
\* creates or removes the file of a non-main module
FedAttachesExistingModules ==
    [][\A p \in Callers :
          LET c == callers'[p]
          IN  /\ (callers[p].pc = "awaitConnect" /\ c.pc # "awaitConnect")
                 => /\ c.attachedByCall \subseteq ExistingAuxAliases
                    /\ (c.error # "attach") => c.attachedByCall = ExistingAuxAliases
                    /\ Underscored(MAIN_ID) \notin c.attachedByCall
                    /\ disk' = disk /\ Len(inodes') = Len(inodes)
              /\ (c.op = "query" /\ c # callers[p])
                 => \A i \in DOMAIN DB_MODULES :
                        DB_MODULES[i].id # MAIN_ID
                        => disk'[DB_MODULES[i].dbFile] = disk[DB_MODULES[i].dbFile]]_vars

FedAttachWitness ==
    \E p \in Callers :
        /\ callers[p].op = "query" /\ callers[p].pc = "done"
        /\ disk["planner.db"] = Absent /\ disk["warehouse.db"] # Absent
        /\ callers[p].attachedByCall = {<<"warehouse", "_", "management">>}
        /\ callers[p].detachTried # {}

\* C21: when prepare, all() or run() throws inside queryLocalDb, the call
\* ends with that statement error thrown to its caller, after the query text
\* was handed to logError, and never with a return value; and a call ends
\* with a statement error only when the statement threw
StatementErrorIsRethrown ==
    \A p \in Callers :
        LET c == callers[p]
        IN  /\ c.stmtThrew
               => /\ c.pc = "failed" /\ c.error = "stmt"
                  /\ c.qres = "none"
                  /\ c.logged = c.sql /\ c.sql # "none"
            /\ (c.error = "stmt" \/ c.logged # "none") => c.stmtThrew

StatementErrorWitness ==
    \E p \in Callers :
        /\ callers[p].op = "query" /\ callers[p].pc = "failed"
        /\ callers[p].stmtThrew /\ callers[p].sql = "invalid"
        /\ callers[p].logged = "invalid"
        /\ handles[callers[p].db].open
        /\ callers[p].detachTried # {}

\* C22: a queryLocalDb call that returns has returned the rows of stmt.all()
\* when the statement is row-producing and the record of changes and
\* lastInsertRowid of stmt.run() when it is a mutating one; a mutating
\* statement makes the call fail only when prepare or run() threw or an
\* ATTACH or the opening of the main database failed
StatementResultByKind ==
    \A p \in Callers :
        LET c == callers[p]
        IN  /\ (c.op = "query" /\ c.pc = "done")
               => \/ c.sql = "select" /\ c.qres = "rows"
                  \/ c.sql = "update" /\ c.qres = "writeResult"
            /\ (c.op = "query" /\ c.pc = "failed" /\ c.sql = "update")
               => c.stmtThrew \/ c.error \in {"attach", "open"}

WriteResultWitness ==
    \E p \in Callers :
        /\ callers[p].op = "query" /\ callers[p].pc = "done"
        /\ callers[p].sql = "update" /\ callers[p].qres = "writeResult"
        /\ ~callers[p].stmtThrew

\* C23: a connectDb call whose PRAGMA journal_mode = WAL has thrown, with
\* SQLITE_CORRUPT or with any other error, never ends in failure: it is
\* suspended at most on the logging of the error, and the step that ends it
\* puts its handle in the cache and returns that handle
PragmaFailureIsNotFatal ==
    [][\A p \in Callers :
          LET c == callers'[p]
          IN  (c.op = "connect" /\ Has(c.log, "walFail") /\ c # callers[p])
              => /\ c.pc \in {"awaitLogPragma", "done"} /\ c.error = "none"
                 /\ c.pc = "done"
                    => /\ c.result = c.db /\ c.db # NoHandle
                       /\ dbConnections'[c.file] = c.db
                       /\ handles'[c.db].open
                       /\ Last(c.log) = "cache"]_vars

PragmaFailureWitness ==
    \E p \in Callers :
        /\ callers[p].op = "connect" /\ callers[p].pc = "done"
        /\ Has(callers[p].log, "walFail") /\ ~Has(callers[p].log, "wal")
        /\ callers[p].result = callers[p].db
        /\ dbConnections[callers[p].file] = callers[p].db
        /\ handles[callers[p].db].open

\* C24: a step that closes a handle closes the handle that the cache holds for
\* its file and is the entry of a connectDb call with forceRecreate for that
\* file; no step of a connectDb call without forceRecreate and no step of a
\* queryLocalDb call closes a handle
OnlyForcedRecreationCloses ==
    [][\A h \in DOMAIN handles :
          (handles[h].open /\ ~handles'[h].open)
          => /\ dbConnections[handles[h].file] = h
             /\ \E p \in Callers :
                    /\ callers[p].pc = "idle"
                    /\ callers'[p].op = "connect" /\ callers'[p].force
                    /\ callers'[p].file = handles[h].file
                    /\ callers'[p].startHandle = h]_vars

CachedHandleStaysOpenWitness ==
    \E p \in Callers :
        /\ callers[p].op = "query" /\ callers[p].pc = "done" /\ ~callers[p].force
        /\ callers[p].startHandle # NoHandle
        /\ callers[p].result = callers[p].startHandle
        /\ dbConnections[DB_FILE] = callers[p].startHandle
        /\ handles[callers[p].startHandle].open

\* the run of the Migrator from the state before the last run in which no
\* statement fails for a reason of the environment
UnfailedRun ==
    Migrator(sdb.module, [schema |-> sdb.prev.schema, rows |-> sdb.prev.rows, ddl |-> <<>>,
                          err |-> FALSE, thrown |-> FALSE, failAt |-> 0])

\* C25: when a statement of a run of a Migrator has thrown, the error has not
\* left the Migrator; the statements the run has issued are the first ones of
\* the run in which nothing fails, the failing one being the last; what the
\* statements before it have changed is in place: with two or more statements
\* issued the schema is not the one before the run, every table and column
\* is one from before the run or one that the unfailed run gives, and no
\* column is dropped from a table that remains except by such a statement
MigratorFailureKeepsPartialProgress ==
    (LastOp = "migrate" /\ sdb.err)
    => LET full == UnfailedRun
       IN  /\ ~sdb.thrown
           /\ Len(sdb.ddl) <= Len(full.ddl)
           /\ SubSeq(full.ddl, 1, Len(sdb.ddl)) = sdb.ddl
           /\ Len(sdb.ddl) >= 2 => sdb.schema # sdb.prev.schema
           /\ (~full.err \/ Len(sdb.ddl) < Len(full.ddl)) => sdb.schema # full.schema
           /\ \A t \in DOMAIN sdb.schema :
                  /\ t \in DOMAIN sdb.prev.schema \cup DOMAIN full.schema
                  /\ sdb.schema[t] \subseteq table_info(sdb.prev, t) \cup table_info(full, t)
                  /\ table_info(sdb.prev, t) \cap table_info(full, t) \subseteq sdb.schema[t]

PartialProgressWitness ==
    /\ LastOp = "migrate" /\ sdb.err /\ ~sdb.thrown
    /\ sdb.module = MAIN_ID /\ Len(sdb.ddl) = 2
    /\ sdb.schema # sdb.prev.schema
    /\ UnfailedRun.schema = MainSchema /\ sdb.schema # MainSchema

\* C26: a run of a Migrator is additive: every table that existed before the
\* run exists after it with every column it had and every row it held, and
\* the passwords and roles of the users aside, no stored row is changed
MigratorIsAdditive ==
    (LastOp = "migrate")
    => \A t \in DOMAIN sdb.prev.schema :
          /\ t \in DOMAIN sdb.schema
          /\ sdb.prev.schema[t] \subseteq sdb.schema[t]
          /\ RowKeys(t, sdb.prev.rows[t]) \subseteq RowKeys(t, sdb.rows[t])

\* C27: after a run of a Migrator on a database that has the module's
\* foundational table, in which no statement failed for a reason of the
\* environment, a second run issues no schema-changing statement and leaves
\* tables and columns as they are
MigratorReachesFixedPoint ==
    [][(/\ LastOp = "migrate" /\ sdb.failAt = 0
        /\ FoundationalTable(sdb.module) \in DOMAIN sdb.prev.schema
        /\ sdb'.ops = Append(sdb.ops, "migrate"))
       => (sdb'.ddl = <<>> /\ sdb'.schema = sdb.schema)]_vars

\* C28: whatever the number of getInitialPageData calls and however they
\* overlap, runScheduledTasks is called at most once in the life of the
\* server process
CronStartedAtMostOnce == page.cronRuns <= 1

\* C29: a queryLocalDb call with a valid statement, made on the main handle
\* after a queryLocalDb call on that handle that has thrown an ATTACH error,
\* does not fail when the handle is open and no ATTACH and no statement of its
\* own fails for a reason outside the program
FailedCallLeavesHandleUsable ==
    \A p, q \in Callers :
        LET c == callers[p]
            e == callers[q]
        IN  (/\ e.op = "query" /\ e.pc = "failed" /\ e.error = "attach"
             /\ c.op = "query" /\ c.seq > e.seq /\ c.db = e.db /\ c.db # NoHandle
             /\ handles[c.db].open
             /\ c.sql \in {"select", "update"} /\ ~c.fault)
            => c.pc # "failed"

\* C30: no queryLocalDb call is ever suspended between its first ATTACH and
\* its last DETACH, and when a call begins its ATTACH loop, no schema that a
\* queryLocalDb call concurrent with it (one that was in flight when it
\* started) has attached is attached to its handle
FederationSessionsAreIsolated ==
    /\ [](\A p \in Callers :
            callers[p].attachedByCall # {} => callers[p].pc \in {"done", "failed"})
    /\ [][\A p, q \in Callers :
            (/\ p # q
             /\ callers[p].pc = "awaitConnect" /\ callers'[p].pc # "awaitConnect"
             /\ callers[q].op = "query" /\ callers[q].db = callers[p].db
             /\ callers[q].seq \in callers[p].overlaps)
            => callers[q].attachedByCall \cap handles[callers[p].db].attached = {}]_vars

TypeOK ==
    /\ dirExists \in BOOLEAN
    /\ \A f \in Files : disk[f] \in 0..Len(inodes)
    /\ \A f \in Files : dbConnections[f] \in 0..Len(handles)
    /\ Len(handles) <= MaxCalls
====
